---- MODULE Spec2Model ----
(***************************************************************************)
(* Forward-mode automatic differentiation by operator overloading:         *)
(* class ADTangent of 05Framework/02AutoDiff/05ForwardMode.ipynb.          *)
(*                                                                         *)
(* Numbers.  A Python number is a record [k, s, n, d, t]:                  *)
(*   k  "fin" (the value s*n/d), "inf" (s*infinity), "nan", or "oor"       *)
(*      (a finite value outside the range this model represents);          *)
(*   s  the sign, 1 or -1 (a float zero keeps its sign, as in IEEE-754);   *)
(*   t  the Python type: "int", "float" or "float64" (numpy's scalar,      *)
(*      which is what np.log, np.sin and np.cos return).                   *)
(* Finite arithmetic is exact on rationals: rounding of the last bit is    *)
(* not modelled.  The special values follow IEEE-754.  np.log, np.sin and  *)
(* np.cos are tabulated to six decimals at the integers 1..10.             *)
(***************************************************************************)
EXTENDS Integers, Sequences, FiniteSets, TLC

VARIABLES heap, last, pc, env

vars == <<heap, last, pc, env>>

-----------------------------------------------------------------------------
(* Bounds of the model *)

\* numerators and denominators of the finite values stay within Cap
Cap == 1000000000

\* the free-composition specification makes at most MaxCalls calls
MaxCalls == 2

\* the lock-step specification derives at most MaxDerived values
MaxDerived == 2

-----------------------------------------------------------------------------
(* Python numbers *)

RECURSIVE GCD(_, _)
GCD(a, b) == IF b = 0 THEN a ELSE GCD(b, a % b)

Fits(a, b) == a = 0 \/ b <= Cap \div a

OOR == [k |-> "oor", s |-> 1, n |-> 0, d |-> 1, t |-> "float64"]

NaN(t) == [k |-> "nan", s |-> 1, n |-> 0, d |-> 1, t |-> t]

Inf(s, t) == [k |-> "inf", s |-> s, n |-> 1, d |-> 1, t |-> t]

\* the finite value s*n/d in lowest terms; an int zero has no sign
Fin(s, n, d, t) ==
    LET g == GCD(n, d)
        nn == n \div g
        dd == d \div g
    IN  IF nn > Cap \/ dd > Cap THEN OOR
        ELSE [k |-> "fin", s |-> IF nn = 0 /\ t = "int" THEN 1 ELSE s,
              n |-> nn, d |-> dd, t |-> t]

PyInt(i) == Fin(IF i < 0 THEN -1 ELSE 1, IF i < 0 THEN -i ELSE i, 1, "int")

PyFloat(i) == Fin(IF i < 0 THEN -1 ELSE 1, IF i < 0 THEN -i ELSE i, 1, "float")

IsNumber(v) == v.k \in {"fin", "inf", "nan", "oor"}

\* the type of the result of a binary arithmetic operator
TypeJoin(t1, t2) ==
    IF "float64" \in {t1, t2} THEN "float64"
    ELSE IF "float" \in {t1, t2} THEN "float"
    ELSE "int"

\* a + b
PyAdd(a, b) ==
    LET t == TypeJoin(a.t, b.t)
    IN  IF a.k = "oor" \/ b.k = "oor" THEN OOR
        ELSE IF a.k = "nan" \/ b.k = "nan" THEN NaN(t)
        ELSE IF a.k = "inf" /\ b.k = "inf"
             THEN IF a.s = b.s THEN Inf(a.s, t) ELSE NaN(t)
        ELSE IF a.k = "inf" THEN Inf(a.s, t)
        ELSE IF b.k = "inf" THEN Inf(b.s, t)
        ELSE LET g  == GCD(a.d, b.d)
                 ea == b.d \div g
                 eb == a.d \div g
             IN  IF ~(Fits(a.n, ea) /\ Fits(b.n, eb) /\ Fits(a.d, ea)) THEN OOR
                 ELSE LET num == a.s * a.n * ea + b.s * b.n * eb
                      IN  IF num = 0
                          THEN Fin(IF a.s = -1 /\ b.s = -1 THEN -1 ELSE 1,
                                   0, 1, t)
                          ELSE Fin(IF num < 0 THEN -1 ELSE 1,
                                   IF num < 0 THEN -num ELSE num, a.d * ea, t)

\* a - b: the operands are converted to the result type, then a + (-b)
PySub(a, b) == PyAdd(a, [b EXCEPT !.s = -b.s])

\* a * b
PyMul(a, b) ==
    LET t == TypeJoin(a.t, b.t)
        s == a.s * b.s
    IN  IF a.k = "oor" \/ b.k = "oor" THEN OOR
        ELSE IF a.k = "nan" \/ b.k = "nan" THEN NaN(t)
        ELSE IF a.k = "inf" \/ b.k = "inf"
             THEN IF (a.k = "fin" /\ a.n = 0) \/ (b.k = "fin" /\ b.n = 0)
                  THEN NaN(t) ELSE Inf(s, t)
        ELSE LET g1 == GCD(a.n, b.d)
                 g2 == GCD(b.n, a.d)
                 n1 == a.n \div g1
                 n2 == b.n \div g2
                 d1 == a.d \div g2
                 d2 == b.d \div g1
             IN  IF ~(Fits(n1, n2) /\ Fits(d1, d2)) THEN OOR
                 ELSE Fin(s, n1 * n2, d1 * d2, t)

\* 1 / x raises ZeroDivisionError for a zero of type int or float; a
\* float64 zero gives an infinity (and a RuntimeWarning)
DivRaises(x) == x.k = "fin" /\ x.n = 0 /\ x.t \in {"int", "float"}

\* 1 / x where it does not raise
Recip(x) ==
    LET t == IF x.t = "int" THEN "float" ELSE x.t
    IN  IF x.k = "oor" THEN OOR
        ELSE IF x.k = "nan" THEN NaN(t)
        ELSE IF x.k = "inf" THEN Fin(x.s, 0, 1, t)
        ELSE IF x.n = 0 THEN Inf(x.s, t)
        ELSE Fin(x.s, x.d, x.n, t)

\* millionths of ln(n), sin(n), cos(n) for n = 1..10
LogTab == <<0, 693147, 1098612, 1386294, 1609438,
            1791759, 1945910, 2079442, 2197225, 2302585>>

SinTab == <<841471, 909297, 141120, -756802, -958924,
            -279415, 656987, 989358, 412118, -544021>>

CosTab == <<540302, -416147, -989992, -653644, 283662,
            960170, 753902, -145500, -911130, -839072>>

InTable(x) == x.k = "fin" /\ x.d = 1 /\ x.n \in DOMAIN LogTab

Millionths(m) ==
    Fin(IF m < 0 THEN -1 ELSE 1, IF m < 0 THEN -m ELSE m, 1000000, "float64")

\* np.log(x): -inf at zero and nan below it, each with a RuntimeWarning
npLog(x) ==
    IF x.k = "oor" THEN OOR
    ELSE IF x.k = "nan" THEN NaN("float64")
    ELSE IF x.k = "inf"
         THEN IF x.s = 1 THEN Inf(1, "float64") ELSE NaN("float64")
    ELSE IF x.n = 0 THEN Inf(-1, "float64")
    ELSE IF x.s = -1 THEN NaN("float64")
    ELSE IF InTable(x) THEN Millionths(LogTab[x.n])
    ELSE OOR

\* np.sin(x)
npSin(x) ==
    IF x.k = "oor" THEN OOR
    ELSE IF x.k \in {"nan", "inf"} THEN NaN("float64")
    ELSE IF x.n = 0 THEN Fin(x.s, 0, 1, "float64")
    ELSE IF InTable(x) THEN Millionths(x.s * SinTab[x.n])
    ELSE OOR

\* np.cos(x)
npCos(x) ==
    IF x.k = "oor" THEN OOR
    ELSE IF x.k \in {"nan", "inf"} THEN NaN("float64")
    ELSE IF x.n = 0 THEN Fin(1, 1, 1, "float64")
    ELSE IF InTable(x) THEN Millionths(CosTab[x.n])
    ELSE OOR

\* format(x, '.4f') of a finite x: the sign and the number of
\* ten-thousandths, rounded half to even (by long division, four digits)
Format4f(x) ==
    IF x.k # "fin" \/ ~Fits(x.d, 10) \/ ~Fits(x.n \div x.d + 1, 10000)
    THEN [s |-> x.s, u |-> -1]
    ELSE LET r0 == x.n % x.d
             r1 == (r0 * 10) % x.d
             r2 == (r1 * 10) % x.d
             r3 == (r2 * 10) % x.d
             r4 == (r3 * 10) % x.d
             q  == (x.n \div x.d) * 10000 + ((r0 * 10) \div x.d) * 1000
                   + ((r1 * 10) \div x.d) * 100 + ((r2 * 10) \div x.d) * 10
                   + (r3 * 10) \div x.d
         IN  [s |-> x.s,
              u |-> IF 2 * r4 > x.d \/ (2 * r4 = x.d /\ q % 2 = 1)
                    THEN q + 1 ELSE q]

-----------------------------------------------------------------------------
(* Python values and the outcome of a call *)

Ref(i) == [k |-> "ADTangent", addr |-> i]

Str == [k |-> "str"]

\* the class NotImplementedError, as a value
NotImplementedError == [k |-> "class", name |-> "NotImplementedError"]

NoValue == [k |-> "none"]

Return(v) == [kind |-> "return", val |-> v, exc |-> ""]

Raise(e) == [kind |-> "raise", val |-> NoValue, exc |-> e]

isinstance(v, cls) ==
    IF cls = "ADTangent" THEN v.k = "ADTangent"
    ELSE IF cls = "float" THEN IsNumber(v) /\ v.t \in {"float", "float64"}
    ELSE FALSE

-----------------------------------------------------------------------------
(* class ADTangent.  A method takes the heap (the sequence of the ADTangent *)
(* instances created so far, an instance being its address) and returns    *)
(* the heap after the call and the call's outcome.                          *)

\* ADTangent(x, dx): a new instance whose __init__ sets self.x and self.dx
ADTangentClassAttrs(h, x, dx) ==
    [heap |-> [i \in 1..(Len(h) + 1) |-> [x |-> x, dx |-> dx]],
     out |-> Return(Ref(Len(h) + 1))]

ADTangent(h, x, dx) ==
    [heap |-> Append(h, [x |-> x, dx |-> dx]),
     out |-> Return(Ref(Len(h) + 1))]

\* the context string: value to four decimals, grad as it is
__str__(h, self) ==
    [heap |-> h,
     out |-> Return([k |-> "str", value |-> Format4f(h[self].x),
                     grad |-> h[self].dx])]

addDropsOtherTangent(h, self, other) ==
    IF isinstance(other, "ADTangent")
    THEN ADTangent(h, PyAdd(h[self].x, h[other.addr].x), h[self].dx)
    ELSE IF isinstance(other, "float")
    THEN ADTangent(h, PyAdd(h[self].x, other), h[self].dx)
    ELSE [heap |-> h, out |-> Return(NotImplementedError)]

__add__(h, self, other) ==
    IF isinstance(other, "ADTangent")
    THEN ADTangent(h, PyAdd(h[self].x, h[other.addr].x),
                      PyAdd(h[self].dx, h[other.addr].dx))
    ELSE IF isinstance(other, "float")
    THEN ADTangent(h, PyAdd(h[self].x, other), h[self].dx)
    ELSE [heap |-> h, out |-> Return(NotImplementedError)]

subInPlace(h, self, other) ==
    IF isinstance(other, "ADTangent")
    THEN [heap |-> [h EXCEPT ![self] =
                       [x |-> PySub(h[self].x, h[other.addr].x),
                        dx |-> PySub(h[self].dx, h[other.addr].dx)]],
          out |-> Return(Ref(self))]
    ELSE IF isinstance(other, "float")
    THEN [heap |-> [h EXCEPT ![self] =
                       [x |-> PySub(h[self].x, other), dx |-> h[self].dx]],
          out |-> Return(Ref(self))]
    ELSE [heap |-> h, out |-> Return(NotImplementedError)]

__sub__(h, self, other) ==
    IF isinstance(other, "ADTangent")
    THEN ADTangent(h, PySub(h[self].x, h[other.addr].x),
                      PySub(h[self].dx, h[other.addr].dx))
    ELSE IF isinstance(other, "float")
    THEN ADTangent(h, PySub(h[self].x, other), h[self].dx)
    ELSE [heap |-> h, out |-> Return(NotImplementedError)]

mulTangentTimesTangent(h, self, other) ==
    IF isinstance(other, "ADTangent")
    THEN ADTangent(h, PyMul(h[self].x, h[other.addr].x),
                      PyAdd(PyMul(h[self].x, h[other.addr].dx),
                            PyMul(h[self].dx, h[other.addr].dx)))
    ELSE IF isinstance(other, "float")
    THEN ADTangent(h, PyMul(h[self].x, other), PyMul(h[self].dx, other))
    ELSE [heap |-> h, out |-> Return(NotImplementedError)]

__mul__(h, self, other) ==
    IF isinstance(other, "ADTangent")
    THEN ADTangent(h, PyMul(h[self].x, h[other.addr].x),
                      PyAdd(PyMul(h[self].x, h[other.addr].dx),
                            PyMul(h[self].dx, h[other.addr].x)))
    ELSE IF isinstance(other, "float")
    THEN ADTangent(h, PyMul(h[self].x, other), PyMul(h[self].dx, other))
    ELSE [heap |-> h, out |-> Return(NotImplementedError)]

logKeepsTangent(h, self) ==
    ADTangent(h, npLog(h[self].x), h[self].dx)

\* x = np.log(self.x); dx = 1 / self.x * self.dx
log(h, self) ==
    IF DivRaises(h[self].x)
    THEN [heap |-> h, out |-> Raise("ZeroDivisionError")]
    ELSE ADTangent(h, npLog(h[self].x), PyMul(Recip(h[self].x), h[self].dx))

\* x = np.sin(self.x); dx = self.dx * np.cos(self.x)
sin(h, self) ==
    ADTangent(h, npSin(h[self].x), PyMul(h[self].dx, npCos(h[self].x)))

Missing(h) == [heap |-> h, out |-> [kind |-> "missing", val |-> NoValue, exc |-> ""]]

ADTangentDictWithTruediv(name, h, self, other) ==
    CASE name = "__add__" -> __add__(h, self, other)
      [] name = "__sub__" -> __sub__(h, self, other)
      [] name = "__mul__" -> __mul__(h, self, other)
      [] name = "__truediv__" -> __mul__(h, self, other)
      [] OTHER -> Missing(h)

\* the binary special methods the class body defines
ADTangentDict(name, h, self, other) ==
    CASE name = "__add__" -> __add__(h, self, other)
      [] name = "__sub__" -> __sub__(h, self, other)
      [] name = "__mul__" -> __mul__(h, self, other)
      [] OTHER -> Missing(h)

\* the special method of a binary operator
Slot(sym) ==
    CASE sym = "+" -> "__add__"
      [] sym = "-" -> "__sub__"
      [] sym = "*" -> "__mul__"
      [] sym = "/" -> "__truediv__"

\* lhs sym rhs, lhs an ADTangent or the class NotImplementedError: Python
\* calls the method of lhs's type; neither type has a reflected method for
\* rhs to fall back to, so a missing method is a TypeError.  What the method
\* returns is the value of the expression.
BinaryOp(sym, h, lhs, rhs) ==
    IF lhs.k # "ADTangent" THEN [heap |-> h, out |-> Raise("TypeError")]
    ELSE LET r == ADTangentDict(Slot(sym), h, lhs.addr, rhs)
         IN  IF r.out.kind = "missing"
             THEN [heap |-> h, out |-> Raise("TypeError")]
             ELSE r

\* ADTangent.log(v) and ADTangent.sin(v): v has attributes x and dx only if
\* it is an instance
UnaryCall(name, h, v) ==
    IF v.k # "ADTangent" THEN [heap |-> h, out |-> Raise("AttributeError")]
    ELSE IF name = "log" THEN log(h, v.addr)
    ELSE sin(h, v.addr)

\* every number of the heap is within the range of the model
Modelled(h) == \A i \in 1..Len(h) : h[i].x.k # "oor" /\ h[i].dx.k # "oor"

-----------------------------------------------------------------------------
(* Free composition: a caller holding two seeded variables applies the     *)
(* operators to any values it has, in any order.                           *)

SeedPairs == {<<PyInt(1), PyInt(0)>>, <<PyInt(0), PyInt(1)>>}

Seeded(x1, x2, s) == ADTangent(ADTangent(<<>>, x1, s[1]).heap, x2, s[2]).heap

\* last: the latest call (its number, operator, operands and outcome)
NoCall ==
    [n |-> 0, op |-> "none", self |-> 0, other |-> NoValue,
     out |-> Return(NoValue)]

Init ==
    /\ \E x1 \in {PyFloat(-1), PyFloat(0), PyFloat(1), PyFloat(2)} :
       \E s \in SeedPairs : heap = Seeded(x1, PyFloat(5), s)
    /\ last = NoCall
    /\ pc = <<>>
    /\ env = <<>>

\* what a caller may pass as the second operand
Operands(h) == {Ref(j) : j \in 1..Len(h)} \cup {PyFloat(2), PyInt(3), Str}

Binary(op, sym, i, o) ==
    /\ last.n < MaxCalls
    /\ LET r == BinaryOp(sym, heap, Ref(i), o)
       IN  /\ Modelled(r.heap)
           /\ heap' = r.heap
           /\ last' = [n |-> last.n + 1, op |-> op, self |-> i, other |-> o,
                       out |-> r.out]
    /\ UNCHANGED <<pc, env>>

Unary(op, i) ==
    /\ last.n < MaxCalls
    /\ LET r == UnaryCall(op, heap, Ref(i))
       IN  /\ Modelled(r.heap)
           /\ heap' = r.heap
           /\ last' = [n |-> last.n + 1, op |-> op, self |-> i,
                       other |-> NoValue, out |-> r.out]
    /\ UNCHANGED <<pc, env>>

Add(i, o) == Binary("add", "+", i, o)

Sub(i, o) == Binary("sub", "-", i, o)

Mul(i, o) == Binary("mul", "*", i, o)

Div(i, o) == Binary("div", "/", i, o)

Log(i) == Unary("log", i)

Sin(i) == Unary("sin", i)

Next ==
    \/ \E i \in 1..Len(heap) : \E o \in Operands(heap) : Add(i, o)
    \/ \E i \in 1..Len(heap) : \E o \in Operands(heap) : Sub(i, o)
    \/ \E i \in 1..Len(heap) : \E o \in Operands(heap) : Mul(i, o)
    \/ \E i \in 1..Len(heap) : \E o \in Operands(heap) : Div(i, o)
    \/ \E i \in 1..Len(heap) : Log(i)
    \/ \E i \in 1..Len(heap) : Sin(i)

Spec == Init /\ [][Next]_vars

-----------------------------------------------------------------------------
(* The demonstration cell, run as two independent passes whose calls       *)
(* interleave on the one heap:                                             *)
(*     x1 = ADTangent(x=2., dx=1)                                          *)
(*     x2 = ADTangent(x=5., dx=0)                                          *)
(*     f = ADTangent.log(x1) + x1 * x2 - ADTangent.sin(x2)                 *)
(*     print(f)                                                            *)
(* Python evaluates f's operands left to right: log, *, +, sin, -.         *)

Passes == {1, 2}

\* the statements and calls of the cell, in evaluation order
DemoProgram == <<"x1", "x2", "log", "mul", "add", "sin", "sub", "print">>

\* the name each of them binds
DemoTarget == <<"x1", "x2", "t1", "t2", "t3", "t4", "f", "out">>

Done == Len(DemoProgram) + 1

Aborted == 0

\* a pass's names before it starts, given the primals and the seeds
DemoEnv(px1, px2, s) ==
    [px1 |-> px1, px2 |-> px2, s1 |-> s[1], s2 |-> s[2],
     x1 |-> NoValue, x2 |-> NoValue, t1 |-> NoValue, t2 |-> NoValue,
     t3 |-> NoValue, t4 |-> NoValue, f |-> NoValue, out |-> NoValue,
     exc |-> ""]

\* print(v): str(v) is v.__str__() for an instance
PyStr(h, v) ==
    IF v.k = "ADTangent" THEN __str__(h, v.addr)
    ELSE [heap |-> h, out |-> Return(Str)]

\* one statement or call of the cell, with the names of environment e
Exec(instr, h, e) ==
    CASE instr = "x1" -> ADTangent(h, e.px1, e.s1)
      [] instr = "x2" -> ADTangent(h, e.px2, e.s2)
      [] instr = "log" -> UnaryCall("log", h, e.x1)
      [] instr = "mul" -> BinaryOp("*", h, e.x1, e.x2)
      [] instr = "add" -> BinaryOp("+", h, e.t1, e.t2)
      [] instr = "sin" -> UnaryCall("sin", h, e.x2)
      [] instr = "sub" -> BinaryOp("-", h, e.t3, e.t4)
      [] instr = "print" -> PyStr(h, e.f)

\* the whole cell from statement i on, run alone on heap h
RECURSIVE RunAlone(_, _, _)
RunAlone(i, h, e) ==
    IF i = Done THEN [pc |-> Done, heap |-> h, env |-> e]
    ELSE LET r == Exec(DemoProgram[i], h, e)
         IN  IF r.out.kind = "raise"
             THEN [pc |-> Aborted, heap |-> r.heap,
                   env |-> [e EXCEPT !.exc = r.out.exc]]
             ELSE RunAlone(i + 1, r.heap,
                           [e EXCEPT ![DemoTarget[i]] = r.out.val])

DemoInit ==
    /\ heap = <<>>
    /\ last = NoCall
    /\ pc = [p \in Passes |-> 1]
    /\ \E sa \in SeedPairs : \E sb \in SeedPairs :
       \E xb \in {PyFloat(2), PyFloat(0)} :
           env = [p \in Passes |->
                     IF p = 1 THEN DemoEnv(PyFloat(2), PyFloat(5), sa)
                     ELSE DemoEnv(xb, PyFloat(5), sb)]

\* pass p executes its statement i; an exception ends the pass
Statement(p, i) ==
    /\ pc[p] = i
    /\ LET r == Exec(DemoProgram[i], heap, env[p])
       IN  /\ Modelled(r.heap)
           /\ heap' = r.heap
           /\ IF r.out.kind = "raise"
              THEN /\ pc' = [pc EXCEPT ![p] = Aborted]
                   /\ env' = [env EXCEPT ![p].exc = r.out.exc]
              ELSE /\ pc' = [pc EXCEPT ![p] = i + 1]
                   /\ env' = [env EXCEPT ![p][DemoTarget[i]] = r.out.val]
    /\ UNCHANGED last

SeedX1(p) == Statement(p, 1)

SeedX2(p) == Statement(p, 2)

EvalLog(p) == Statement(p, 3)

EvalMul(p) == Statement(p, 4)

EvalAdd(p) == Statement(p, 5)

EvalSin(p) == Statement(p, 6)

EvalSub(p) == Statement(p, 7)

PrintF(p) == Statement(p, 8)

DemoNext ==
    \/ \E p \in Passes : SeedX1(p)
    \/ \E p \in Passes : SeedX2(p)
    \/ \E p \in Passes : EvalLog(p)
    \/ \E p \in Passes : EvalMul(p)
    \/ \E p \in Passes : EvalAdd(p)
    \/ \E p \in Passes : EvalSin(p)
    \/ \E p \in Passes : EvalSub(p)
    \/ \E p \in Passes : PrintF(p)

DemoSpec == DemoInit /\ [][DemoNext]_vars

-----------------------------------------------------------------------------
(* Three passes over the same expression in lock step: version 1 of every  *)
(* value is seeded (s1, s2), version 2 (1, 0) and version 3 (0, 1).        *)
(* Value number j has its versions at addresses 3j-2, 3j-1 and 3j.         *)

Version(j, v) == Ref(3 * (j - 1) + v)

Node(j) == [k |-> "node", j |-> j]

Arg(o, v) == IF o.k = "node" THEN Version(o.j, v) ELSE o

Seeds == {PyInt(0), PyInt(1), PyInt(2)}

LinSeeded(x1, x2, s1, s2) ==
    LET a1 == ADTangent(<<>>, x1, s1)
        a2 == ADTangent(a1.heap, x1, PyInt(1))
        a3 == ADTangent(a2.heap, x1, PyInt(0))
        b1 == ADTangent(a3.heap, x2, s2)
        b2 == ADTangent(b1.heap, x2, PyInt(0))
        b3 == ADTangent(b2.heap, x2, PyInt(1))
    IN  b3.heap

LinInit ==
    /\ \E x1 \in {PyFloat(1), PyFloat(2)} : \E s1 \in Seeds : \E s2 \in Seeds :
          /\ heap = LinSeeded(x1, PyFloat(5), s1, s2)
          /\ env = [s1 |-> s1, s2 |-> s2]
    /\ last = NoCall
    /\ pc = <<>>

NodeCount == Len(heap) \div 3

LinOperands == {Node(j) : j \in 1..NodeCount} \cup {PyFloat(2)}

\* the three passes make the same call; the value is kept if it is an
\* ADTangent in each of them
LinKeep(op, i, o, r1, r2, r3) ==
    /\ last.n < MaxDerived
    /\ Modelled(r3.heap)
    /\ heap' = IF \A r \in {r1, r2, r3} :
                     r.out.kind = "return" /\ r.out.val.k = "ADTangent"
               THEN r3.heap ELSE heap
    /\ last' = [n |-> last.n + 1, op |-> op, self |-> i, other |-> o,
                out |-> r1.out]
    /\ UNCHANGED <<pc, env>>

LinBinary(op, sym, i, o) ==
    LET r1 == BinaryOp(sym, heap, Version(i, 1), Arg(o, 1))
        r2 == BinaryOp(sym, r1.heap, Version(i, 2), Arg(o, 2))
        r3 == BinaryOp(sym, r2.heap, Version(i, 3), Arg(o, 3))
    IN  LinKeep(op, i, o, r1, r2, r3)

LinUnary(op, i) ==
    LET r1 == UnaryCall(op, heap, Version(i, 1))
        r2 == UnaryCall(op, r1.heap, Version(i, 2))
        r3 == UnaryCall(op, r2.heap, Version(i, 3))
    IN  LinKeep(op, i, NoValue, r1, r2, r3)

LinAdd(i, o) == LinBinary("add", "+", i, o)

LinSub(i, o) == LinBinary("sub", "-", i, o)

LinMul(i, o) == LinBinary("mul", "*", i, o)

LinLog(i) == LinUnary("log", i)

LinSin(i) == LinUnary("sin", i)

LinNext ==
    \/ \E i \in 1..NodeCount : \E o \in LinOperands : LinAdd(i, o)
    \/ \E i \in 1..NodeCount : \E o \in LinOperands : LinSub(i, o)
    \/ \E i \in 1..NodeCount : \E o \in LinOperands : LinMul(i, o)
    \/ \E i \in 1..NodeCount : LinLog(i)
    \/ \E i \in 1..NodeCount : LinSin(i)

LinSpec == LinInit /\ [][LinNext]_vars

-----------------------------------------------------------------------------
(* Properties *)

\* the latest call returned an ADTangent
Returned == last.out.kind = "return" /\ last.out.val.k = "ADTangent"

\* the ADTangent the latest call returned
Result == heap[last.out.val.addr]

\* the latest call's second operand is an ADTangent
DualOperand == last.other.k = "ADTangent"

\* numeric equality (Python's ==, with nan taken equal to nan)
SameValue(a, b) ==
    /\ a.k = b.k
    /\ a.k = "fin" => a.n = b.n /\ a.d = b.d /\ (a.n = 0 \/ a.s = b.s)
    /\ a.k = "inf" => a.s = b.s

IsFinite(a) == a.k = "fin"

IsZero(a) == a.k = "fin" /\ a.n = 0

\* C1: product rule.  mul(a, b) of two DualNumbers returns a DualNumber
\* with primal x_a * x_b and tangent x_a * dx_b + dx_a * x_b.
ProductRule ==
    (last.op = "mul" /\ DualOperand) =>
        LET a == heap[last.self]
            b == heap[last.other.addr]
        IN  /\ Returned
            /\ Result.x = PyMul(a.x, b.x)
            /\ Result.dx = PyAdd(PyMul(a.x, b.dx), PyMul(a.dx, b.x))

\* a product of a seed and a derived value, both tangents non-zero
ProductRuleWitness ==
    /\ last.op = "mul" /\ DualOperand /\ Returned
    /\ last.n = 2
    /\ last.other.addr = 3
    /\ last.self # 3
    /\ IsFinite(heap[last.self].dx) /\ ~IsZero(heap[last.self].dx)
    /\ IsFinite(heap[3].dx) /\ ~IsZero(heap[3].dx)
    /\ IsFinite(Result.x) /\ IsFinite(Result.dx)

\* C2: additivity of tangents.  add(a, b) of two DualNumbers returns a
\* DualNumber with primal a.primal + b.primal and tangent
\* a.tangent + b.tangent.
TangentsAdd ==
    (last.op = "add" /\ DualOperand) =>
        LET a == heap[last.self]
            b == heap[last.other.addr]
        IN  /\ Returned
            /\ Result.x = PyAdd(a.x, b.x)
            /\ Result.dx = PyAdd(a.dx, b.dx)

\* a sum whose second operand is a derived value with a non-zero tangent
TangentsAddWitness ==
    /\ last.op = "add" /\ DualOperand /\ Returned
    /\ last.n = 2
    /\ last.other.addr = 3
    /\ IsFinite(heap[3].dx) /\ ~IsZero(heap[3].dx)
    /\ IsFinite(Result.x) /\ IsFinite(Result.dx)

\* C3: a plain real constant c, integer constants included, is treated as
\* DualNumber(c, 0): add(a, c), sub(a, c) and mul(a, c) return the same
\* DualNumber as the operation applied to a and DualNumber(c, 0); add and
\* sub give tangent a.tangent, mul gives a.tangent * c.
ConstantIsDualWithZeroTangent ==
    (last.op \in {"add", "sub", "mul"} /\ IsNumber(last.other)) =>
        LET a == heap[last.self]
            c == ADTangent(heap, last.other, PyInt(0))
            m == IF last.op = "add" THEN "__add__"
                 ELSE IF last.op = "sub" THEN "__sub__" ELSE "__mul__"
            r == ADTangentDict(m, c.heap, last.self, c.out.val)
            d == r.heap[r.out.val.addr]
        IN  /\ Returned
            /\ SameValue(Result.x, d.x)
            /\ SameValue(Result.dx, d.dx)
            /\ SameValue(Result.dx, IF last.op = "mul"
                                    THEN PyMul(a.dx, last.other) ELSE a.dx)

\* C4: add, sub or mul with a second operand that is neither a DualNumber
\* nor a real constant fails with an error raised to the caller; it returns
\* no value.
OperandTypeErrorIsRaised ==
    (/\ last.op \in {"add", "sub", "mul"}
     /\ ~DualOperand
     /\ ~IsNumber(last.other)) => last.out.kind = "raise"

\* C5: log of a DualNumber whose primal is zero or negative raises a domain
\* error, whatever its tangent; it returns no DualNumber.
LogDomainErrorIsRaised ==
    (/\ last.op = "log"
     /\ IsFinite(heap[last.self].x)
     /\ (heap[last.self].x.n = 0 \/ heap[last.self].x.s = -1)) =>
        last.out.kind = "raise"

\* C8: no call changes an existing DualNumber; a call that returns a
\* DualNumber returns a new one, and a call that does not creates none.
OperandsNeverMutated ==
    [][/\ Len(heap') >= Len(heap)
       /\ \A a \in 1..Len(heap) : heap'[a] = heap[a]
       /\ IF last'.out.kind = "return" /\ last'.out.val.k = "ADTangent"
          THEN /\ last'.out.val.addr = Len(heap) + 1
               /\ Len(heap') = Len(heap) + 1
          ELSE heap' = heap]_vars

\* a call with the same DualNumber as both operands, made after a call
\* that took the error branch (two calls, one new object)
OperandsNeverMutatedWitness ==
    /\ last.n = 2
    /\ Len(heap) = 3
    /\ last.op \in {"add", "sub", "mul"}
    /\ last.other = Ref(last.self)
    /\ Returned

-----------------------------------------------------------------------------
(* Properties of the demonstration passes *)

\* the value a name is bound to
Deref(h, v) == IF v.k = "ADTangent" THEN h[v.addr] ELSE v

Finished(p) == pc[p] \in {Done, Aborted}

PassInputs(p) == DemoEnv(env[p].px1, env[p].px2, <<env[p].s1, env[p].s2>>)

Names == {DemoTarget[i] : i \in DOMAIN DemoTarget}

\* C6: f = log(x1) + x1*x2 - sin(x2) at x1 = 2.0, x2 = 5.0 has primal
\* ln(2) + 10 - sin(5), printed as 11.6521, under either seeding; its
\* tangent is 5.5 seeded (1, 0) and 2 - cos(5), about 1.7163, seeded (0, 1).
EndToEnd ==
    \A p \in Passes :
        (pc[p] = Done /\ env[p].px1 = PyFloat(2) /\ env[p].px2 = PyFloat(5)) =>
            LET f == heap[env[p].f.addr]
            IN  /\ f.x = PySub(PyAdd(npLog(PyFloat(2)), PyFloat(10)),
                               npSin(PyFloat(5)))
                /\ f.x = Fin(1, 11652071, 1000000, "float64")
                /\ env[p].out.value = [s |-> 1, u |-> 116521]
                /\ env[p].out.grad = f.dx
                /\ (env[p].s1 = PyInt(1) /\ env[p].s2 = PyInt(0)) =>
                       f.dx = Fin(1, 11, 2, "float64")
                /\ (env[p].s1 = PyInt(0) /\ env[p].s2 = PyInt(1)) =>
                       /\ f.dx = PySub(PyFloat(2), npCos(PyFloat(5)))
                       /\ Format4f(f.dx) = [s |-> 1, u |-> 17163]

\* both seedings of the cell have run to the end
EndToEndWitness ==
    /\ pc[1] = Done /\ pc[2] = Done
    /\ env[1].px1 = PyFloat(2) /\ env[2].px1 = PyFloat(2)
    /\ env[1].s1 = PyInt(1) /\ env[1].s2 = PyInt(0)
    /\ env[2].s1 = PyInt(0) /\ env[2].s2 = PyInt(1)

\* C7: determinism and no hidden state.  Whatever the interleaving of two
\* passes, every value a pass has computed is the value the pass computes
\* when run alone, a pass ends as it ends alone, and two passes with the
\* same inputs get the same results.
NoInterference ==
    /\ \A p \in Passes :
          LET alone == RunAlone(1, <<>>, PassInputs(p))
          IN  /\ \A name \in Names :
                    env[p][name] # NoValue =>
                        Deref(heap, env[p][name]) =
                            Deref(alone.heap, alone.env[name])
              /\ Finished(p) => pc[p] = alone.pc /\ env[p].exc = alone.env.exc
    /\ \A p \in Passes : \A q \in Passes :
          (Finished(p) /\ Finished(q) /\ PassInputs(p) = PassInputs(q)) =>
              /\ pc[p] = pc[q]
              /\ env[p].exc = env[q].exc
              /\ \A name \in Names :
                    Deref(heap, env[p][name]) = Deref(heap, env[q][name])

\* two passes with different seeds have both ended, their calls interleaved
NoInterferenceWitness ==
    /\ pc[1] = Done /\ pc[2] = Done
    /\ env[1].s1 # env[2].s1
    /\ env[1].x1.addr < env[2].x1.addr
    /\ env[2].x1.addr < env[1].x2.addr
    /\ env[1].t1.addr < env[2].t1.addr
    /\ env[2].f.addr < env[1].f.addr

-----------------------------------------------------------------------------
(* Property of the lock-step passes *)

\* C10: linearity in the seeds.  Every value's primal is the same under
\* every seeding, its tangent under seeds (s1, s2) is s1 times its tangent
\* under (1, 0) plus s2 times its tangent under (0, 1), and under seeds
\* (0, 0) every tangent is zero.
LinearInSeeds ==
    \A j \in 1..NodeCount :
        LET a  == heap[3 * j - 2]
            e1 == heap[3 * j - 1]
            e2 == heap[3 * j]
            c  == PyAdd(PyMul(env.s1, e1.dx), PyMul(env.s2, e2.dx))
        IN  /\ a.x = e1.x
            /\ a.x = e2.x
            /\ c.k # "oor" => SameValue(a.dx, c)
            /\ (env.s1 = PyInt(0) /\ env.s2 = PyInt(0)) => IsZero(a.dx)

\* the same statement for the values all of whose components are finite
LinearInSeedsWhereFinite ==
    \A j \in 1..NodeCount :
        LET a  == heap[3 * j - 2]
            e1 == heap[3 * j - 1]
            e2 == heap[3 * j]
            c  == PyAdd(PyMul(env.s1, e1.dx), PyMul(env.s2, e2.dx))
        IN  (\A v \in {a.x, a.dx, e1.dx, e2.dx} : IsFinite(v)) =>
                /\ a.x = e1.x
                /\ a.x = e2.x
                /\ c.k # "oor" => SameValue(a.dx, c)
                /\ (env.s1 = PyInt(0) /\ env.s2 = PyInt(0)) => IsZero(a.dx)

====
